---- MODULE Spec2Model ----
(***************************************************************************)
(* Per-tenant quota enforcement of tigris (package quota): Allow,          *)
(* GetState, getState, check, checkStorage, updateTenantMetrics and        *)
(* updateTenantSize, as a state machine of concurrent request handlers.    *)
(* Each action is one step of one handler between two accesses to shared   *)
(* memory (the sync.Map, an atomic field, a mutex, a limiter, the clock,   *)
(* a collaborator call).                                                   *)
(***************************************************************************)
EXTENDS Integers, Sequences, FiniteSets, TLC

\* ------------------------------------------------------------------ bounds

\* unix time (seconds) at which the process starts serving
StartTime == 10
\* number of seconds the clock may advance
MaxTicks == 2
\* largest request size (bytes) a caller passes
MaxReq == 2
\* largest tenant size (bytes) the catalog answers
MaxDiskSize == 2
\* number of calls a handler makes
MaxCalls == 1
\* number of calls a handler makes where only the rate limiter is exercised
MaxRateCalls == 6
\* calls of each handler in SpecRetry
MaxRetryCalls == 2

\* ----------------------------------------------------- configuration (cfg)

\* config.QuotaConfig: the values Init received
RateLimit == 1
WriteThroughputLimit == 1
DataSizeLimit == 2
LimitUpdateInterval == 2
TenantSizeRefreshInterval == 2

\* burst of the request-rate limiter
RateBurst == 10

\* ------------------------------------------------------------------- sets

Procs == {1, 2}
Tenants == {"a", "b"}
None == "none"
\* no State object (a nil pointer, a missing map entry)
NoState == <<None, 0>>
\* no handler (a free mutex)
NoProc == 0
\* no time (history fields that record when something happened)
Never == -1
\* no failed refresh (history)
NoFail == [ts |-> Never, size |-> Never]
\* a State object is named by the tenant and the handler that allocated it
StateIds == Tenants \X Procs
Times == StartTime .. (StartTime + MaxTicks)
ReqSizes == 1 .. MaxReq
\* the requests larger than the write-throughput burst
Oversized == {n \in ReqSizes : n > WriteThroughputLimit}
DiskSizes == 0 .. MaxDiskSize

ErrRateExceeded == "request rate limit exceeded"
ErrThroughputExceeded == "request throughput limit exceeded"
ErrStorageSizeExceeded == "data size limit exceeded"
\* an error of a collaborator (catalog, transaction manager), by call site
ErrCatalog == "catalog error (enforcement refresh)"
ErrMetrics == "catalog error (metrics walk)"
Nil == "nil"

Min(a, b) == IF a < b THEN a ELSE b

VARIABLES
    now,          \* time.Now().Unix()
    enabled,      \* config.DefaultConfig.Quota.Enabled
    tenantQuota,  \* Manager.tenantQuota: tenant -> State object or NoState
    st,           \* the State objects
    loc,          \* each handler's position and locals
    observed,     \* history: the State objects getState has returned, per tenant
    sizeQ,        \* history: times of the last two enforcement Tenant.Size queries, per tenant
    lastFail,     \* history: the last failed enforcement refresh, per tenant
    passAt,       \* history: calls that passed the rate check, per tenant and second
    calls         \* the number of calls each handler has made since Init

vars == <<now, enabled, tenantQuota, st, loc, observed, sizeQ, lastFail, passAt, calls>>

\* --------------------------------------------------------- initial values

\* a rate.Limiter as rate.NewLimiter(limit, burst) returns it: a full bucket
NewLimiter(burst) == [tokens |-> burst, last |-> 0]

\* &State{Rate: ..., WriteThroughput: ...}; the other fields are Go zero values
\* (ReadThroughput is constructed too and never used: it is left out).
\* SizeStoredAt is history: the time of the last Size.Store, Never if there was none.
NewState ==
    [Rate |-> NewLimiter(RateBurst),
     WriteThroughput |-> NewLimiter(WriteThroughputLimit),
     Size |-> 0,
     SizeUpdateAt |-> 0,
     TenantSizeUpdateAt |-> 0,
     SizeLock |-> NoProc,
     TenantSizeLock |-> NoProc,
     SizeStoredAt |-> Never]

\* a handler that is not inside a call
Idle ==
    [pc |-> "idle", ns |-> None, size |-> 0, s |-> NoState, sz |-> 0, ts |-> 0,
     ret |-> None, walk |-> None,
     checks |-> <<>>, rateAvail |-> 0, wtAvail |-> 0, path |-> None,
     refreshed |-> FALSE, sawFail |-> NoFail]

\* the process after quota.Init: no tenant has been seen
InitCold ==
    /\ now = StartTime
    /\ enabled \in BOOLEAN
    /\ tenantQuota = [t \in Tenants |-> NoState]
    /\ st = [i \in StateIds |-> NewState]
    /\ loc = [p \in Procs |-> Idle]
    /\ observed = [t \in Tenants |-> {}]
    /\ sizeQ = [t \in Tenants |-> <<Never, Never>>]
    /\ lastFail = [t \in Tenants |-> NoFail]
    /\ passAt = [t \in Tenants |-> [x \in Times |-> 0]]
    /\ calls = [p \in Procs |-> 0]

\* the tenant and the handler of the calls that precede InitDrained
DrainedTenant == "a"
DrainedBy == 1

\* the process after handler DrainedBy has made RateBurst - 1 calls
\* Allow(DrainedTenant, n), n oversized, one after the other within the second
\* StartTime, quotas enabled: each took one request token and was refused by the
\* throughput check; the first installed the State and ran the metrics walk
InitDrained ==
    LET is == <<DrainedTenant, DrainedBy>> IN
    /\ now = StartTime
    /\ enabled = TRUE
    /\ tenantQuota = [t \in Tenants |-> IF t = DrainedTenant THEN is ELSE NoState]
    /\ st = [i \in StateIds |->
               IF i = is
                 THEN [NewState EXCEPT !.Rate = [tokens |-> 1, last |-> StartTime],
                                       !.TenantSizeUpdateAt = StartTime]
                 ELSE NewState]
    /\ loc = [p \in Procs |-> Idle]
    /\ observed = [t \in Tenants |-> IF t = DrainedTenant THEN {is} ELSE {}]
    /\ sizeQ = [t \in Tenants |-> <<Never, Never>>]
    /\ lastFail = [t \in Tenants |-> NoFail]
    /\ passAt = [t \in Tenants |-> [x \in Times |->
                   IF t = DrainedTenant /\ x = StartTime THEN RateBurst - 1 ELSE 0]]
    /\ calls = [p \in Procs |-> 0]

Init == InitCold \/ InitDrained

\* ------------------------------------------------------------- the clock

\* a second passes
Tick ==
    /\ now < StartTime + MaxTicks
    /\ now' = now + 1
    /\ UNCHANGED <<enabled, tenantQuota, st, loc, observed, sizeQ, lastFail, passAt, calls>>

\* --------------------------------------------------------------- getState

\* m.tenantQuota.Load(namespace): on a hit getState returns the loaded State
Load(p, hitPc, missPc) ==
    LET is == tenantQuota[loc[p].ns] IN
    /\ IF is # NoState
         THEN /\ loc' = [loc EXCEPT ![p].s = is, ![p].pc = hitPc]
              /\ observed' = [observed EXCEPT ![loc[p].ns] = @ \cup {is}]
         ELSE /\ loc' = [loc EXCEPT ![p].pc = missPc]
              /\ UNCHANGED observed
    /\ UNCHANGED <<now, enabled, tenantQuota, st, sizeQ, lastFail, passAt, calls>>

\* Store with one entry for all tenants: the new State is stored under every key
Store_Shared(p, nextPc) ==
    LET is == <<loc[p].ns, p>> IN
    /\ tenantQuota' = [t \in Tenants |-> is]
    /\ loc' = [loc EXCEPT ![p].s = is, ![p].pc = nextPc]
    /\ observed' = [observed EXCEPT ![loc[p].ns] = @ \cup {is}]
    /\ UNCHANGED <<now, enabled, st, sizeQ, lastFail, passAt, calls>>

\* is = &State{...}; m.tenantQuota.Store(namespace, is); return is
Store(p, nextPc) ==
    LET is == <<loc[p].ns, p>> IN
    /\ tenantQuota' = [tenantQuota EXCEPT ![loc[p].ns] = is]
    /\ loc' = [loc EXCEPT ![p].s = is, ![p].pc = nextPc]
    /\ observed' = [observed EXCEPT ![loc[p].ns] = @ \cup {is}]
    /\ UNCHANGED <<now, enabled, st, sizeQ, lastFail, passAt, calls>>

\* ------------------------------------------------------ the entry points

\* a request handler calls Allow(ctx, namespace, reqSize)
CallAllow(p, tenants, sizes, budget) ==
    /\ loc[p].pc = "idle"
    /\ calls[p] < budget
    /\ calls' = [calls EXCEPT ![p] = @ + 1]
    /\ \E t \in tenants, n \in sizes :
         loc' = [loc EXCEPT ![p] = [Idle EXCEPT !.pc = "um_load", !.ns = t, !.size = n,
                                                !.sawFail = lastFail[t]]]
    /\ UNCHANGED <<now, enabled, tenantQuota, st, observed, sizeQ, lastFail, passAt>>

\* a telemetry reader calls GetState(namespace)
CallGetState(p, tenants, budget) ==
    /\ loc[p].pc = "idle"
    /\ calls[p] < budget
    /\ calls' = [calls EXCEPT ![p] = @ + 1]
    /\ \E t \in tenants :
         loc' = [loc EXCEPT ![p] = [Idle EXCEPT !.pc = "gs_load", !.ns = t]]
    /\ UNCHANGED <<now, enabled, tenantQuota, st, observed, sizeQ, lastFail, passAt>>

GsLoad(p) == loc[p].pc = "gs_load" /\ Load(p, "gs_done", "gs_store")
GsStore(p) == loc[p].pc = "gs_store" /\ Store(p, "gs_done")

\* the call has returned to its caller
Return(p) ==
    /\ loc[p].pc \in {"done", "gs_done"}
    /\ loc' = [loc EXCEPT ![p] = Idle]
    /\ UNCHANGED <<now, enabled, tenantQuota, st, observed, sizeQ, lastFail, passAt, calls>>

\* ------------------------------------------------- updateTenantMetrics

\* the staleness test of both debounce clocks: currentTimeStamp >= updatedAt + interval
Stale(ts, updatedAt, interval) == ts >= updatedAt + interval

\* s := m.getState(namespace)
UmLoad(p) == loc[p].pc = "um_load" /\ Load(p, "um_test", "um_store")
UmStore(p) == loc[p].pc = "um_store" /\ Store(p, "um_test")

\* UmTest that looks at Enabled first: with quotas disabled the metrics path is skipped
UmTest_EnabledOnly(p) ==
    /\ loc[p].pc = "um_test"
    /\ loc' = [loc EXCEPT ![p] =
                 IF enabled /\ Stale(now, st[loc[p].s].TenantSizeUpdateAt,
                                     TenantSizeRefreshInterval)
                   THEN [@ EXCEPT !.ts = now, !.pc = "um_lock"]
                   ELSE [@ EXCEPT !.pc = "al_enabled"]]
    /\ UNCHANGED <<now, enabled, tenantQuota, st, observed, sizeQ, lastFail, passAt, calls>>

\* sz := s.Size.Load(); currentTimeStamp := time.Now().Unix();
\* if currentTimeStamp >= s.TenantSizeUpdateAt.Load()+m.cfg.TenantSizeRefreshInterval
\* (sz is only handed to the metrics sink, so it is not kept)
UmTest(p) ==
    /\ loc[p].pc = "um_test"
    /\ loc' = [loc EXCEPT ![p] =
                 IF Stale(now, st[loc[p].s].TenantSizeUpdateAt, TenantSizeRefreshInterval)
                   THEN [@ EXCEPT !.ts = now, !.pc = "um_lock"]
                   ELSE [@ EXCEPT !.pc = "al_enabled"]]
    /\ UNCHANGED <<now, enabled, tenantQuota, st, observed, sizeQ, lastFail, passAt, calls>>

\* s.TenantSizeLock.Lock(); s.TenantSizeUpdateAt.Store(currentTimeStamp);
\* metrics.UpdateNameSpaceSizeMetrics(namespace, sz)
UmLock(p) ==
    /\ loc[p].pc = "um_lock"
    /\ st[loc[p].s].TenantSizeLock = NoProc
    /\ st' = [st EXCEPT ![loc[p].s].TenantSizeLock = p,
                        ![loc[p].s].TenantSizeUpdateAt = loc[p].ts]
    /\ loc' = [loc EXCEPT ![p].pc = "um_walk"]
    /\ UNCHANGED <<now, enabled, tenantQuota, observed, sizeQ, lastFail, passAt, calls>>

\* the ways updateTenantSize ends: no transaction manager or GetTenant failed (nothing
\* emitted), GetDatabase failed (the walk stops), DatabaseSize, CollectionSize or
\* Tenant.Size failed (logged, the size got is emitted), or no failure
WalkOutcomes == {"GetTenant", "GetDatabase", "DatabaseSize", "CollectionSize", "Size", Nil}

\* UmWalk without the deferred Unlock: TenantSizeLock stays with the handler
UmWalk_NoUnlock(p) ==
    /\ loc[p].pc = "um_walk"
    /\ \E failed \in WalkOutcomes :
         loc' = [loc EXCEPT ![p].ts = 0, ![p].walk = failed, ![p].pc = "al_enabled"]
    /\ UNCHANGED <<now, enabled, tenantQuota, st, observed, sizeQ, lastFail, passAt, calls>>

\* UmWalk that writes the tenant size it read from the catalog into s.Size
UmWalk_WritesSize(p) ==
    /\ loc[p].pc = "um_walk"
    /\ \E failed \in WalkOutcomes, dsz \in DiskSizes :
         /\ loc' = [loc EXCEPT ![p].ts = 0, ![p].walk = failed, ![p].pc = "al_enabled"]
         /\ st' = [st EXCEPT ![loc[p].s].TenantSizeLock = NoProc,
                             ![loc[p].s].Size = IF failed = Nil THEN dsz ELSE @]
    /\ UNCHANGED <<now, enabled, tenantQuota, observed, sizeQ, lastFail, passAt, calls>>

\* UmWalk that returns the walk's error: Allow ends with it
UmWalk_Surfaced(p) ==
    /\ loc[p].pc = "um_walk"
    /\ \E failed \in WalkOutcomes :
         loc' = [loc EXCEPT ![p] =
                   IF failed = Nil
                     THEN [@ EXCEPT !.ts = 0, !.walk = failed, !.pc = "al_enabled"]
                     ELSE [@ EXCEPT !.ts = 0, !.walk = failed, !.ret = ErrMetrics,
                                    !.pc = "done"]]
    /\ st' = [st EXCEPT ![loc[p].s].TenantSizeLock = NoProc]
    /\ UNCHANGED <<now, enabled, tenantQuota, observed, sizeQ, lastFail, passAt, calls>>

\* m.updateTenantSize(ctx, namespace): every error is logged (ulog.E) and none is
\* returned; then the deferred s.TenantSizeLock.Unlock(). walk is history: how the
\* walk ended, kept until check is entered or Allow returns without it
UmWalk(p) ==
    /\ loc[p].pc = "um_walk"
    /\ \E failed \in WalkOutcomes :
         loc' = [loc EXCEPT ![p].ts = 0, ![p].walk = failed, ![p].pc = "al_enabled"]
    /\ st' = [st EXCEPT ![loc[p].s].TenantSizeLock = NoProc]
    /\ UNCHANGED <<now, enabled, tenantQuota, observed, sizeQ, lastFail, passAt, calls>>

\* ------------------------------------------------------------------ Allow

\* AlEnabled without the test of Enabled: check runs on every call
AlEnabled_NoBypass(p) ==
    /\ loc[p].pc = "al_enabled"
    /\ loc' = [loc EXCEPT ![p].walk = None, ![p].pc = "ck_load"]
    /\ UNCHANGED <<now, enabled, tenantQuota, st, observed, sizeQ, lastFail, passAt, calls>>

\* if !config.DefaultConfig.Quota.Enabled { return nil }; return mgr.check(...)
AlEnabled(p) ==
    /\ loc[p].pc = "al_enabled"
    /\ loc' = [loc EXCEPT ![p] = IF ~enabled
                                   THEN [@ EXCEPT !.ret = Nil, !.pc = "done"]
                                   ELSE [@ EXCEPT !.walk = None, !.pc = "ck_load"]]
    /\ UNCHANGED <<now, enabled, tenantQuota, st, observed, sizeQ, lastFail, passAt, calls>>

\* ------------------------------------------------------------------ check

\* rate.Limiter: the tokens in the bucket at time t (tokens accrue at `limit`
\* per second up to `burst`)
Tokens(lim, limit, burst, t) == Min(burst, lim.tokens + (t - lim.last) * limit)

\* rate.Limiter.AllowN(t, n): whether n tokens are there at time t
LimOk(lim, limit, burst, t, n) == n <= Tokens(lim, limit, burst, t)

\* rate.Limiter.AllowN(t, n): the limiter afterwards; a refused call takes nothing
LimTake(lim, limit, burst, t, n) ==
    IF LimOk(lim, limit, burst, t, n)
      THEN [tokens |-> Tokens(lim, limit, burst, t) - n, last |-> t]
      ELSE lim

\* s := m.getState(namespace). updateTenantMetrics has resolved the tenant's State
\* earlier in the same call and entries are never removed, so this Load finds an
\* entry (CkLoadHits) and the Store of getState is not reached from here
CkLoad(p) == loc[p].pc = "ck_load" /\ Load(p, "ck_rate", "ck_store")

\* check's getState never misses
CkLoadHits == \A p \in Procs : loc[p].pc # "ck_store"

\* CkRate without the return: a call refused by the rate check goes on to the
\* throughput check
CkRate_NoReturn(p) ==
    LET lim == st[loc[p].s].Rate
        ok == LimOk(lim, RateLimit, RateBurst, now, 1)
    IN
    /\ loc[p].pc = "ck_rate"
    /\ st' = [st EXCEPT ![loc[p].s].Rate = LimTake(lim, RateLimit, RateBurst, now, 1)]
    /\ loc' = [loc EXCEPT ![p] =
                 [@ EXCEPT !.checks = Append(@, "rate"),
                           !.rateAvail = Tokens(lim, RateLimit, RateBurst, now),
                           !.ret = IF ok THEN @ ELSE ErrRateExceeded,
                           !.pc = "ck_tput"]]
    /\ passAt' = [passAt EXCEPT ![loc[p].ns][now] = IF ok THEN @ + 1 ELSE @]
    /\ UNCHANGED <<now, enabled, tenantQuota, observed, sizeQ, lastFail, calls>>

\* if !s.Rate.Allow() { return ErrRateExceeded }
CkRate(p) ==
    LET lim == st[loc[p].s].Rate
        ok == LimOk(lim, RateLimit, RateBurst, now, 1)
    IN
    /\ loc[p].pc = "ck_rate"
    /\ st' = [st EXCEPT ![loc[p].s].Rate = LimTake(lim, RateLimit, RateBurst, now, 1)]
    /\ loc' = [loc EXCEPT ![p] =
                 [@ EXCEPT !.checks = Append(@, "rate"),
                           !.rateAvail = Tokens(lim, RateLimit, RateBurst, now),
                           !.ret = IF ok THEN @ ELSE ErrRateExceeded,
                           !.pc = IF ok THEN "ck_tput" ELSE "done"]]
    /\ passAt' = [passAt EXCEPT ![loc[p].ns][now] = IF ok THEN @ + 1 ELSE @]
    /\ UNCHANGED <<now, enabled, tenantQuota, observed, sizeQ, lastFail, calls>>

\* CkTput on a byte bucket whose burst is the request burst, not WriteThroughputLimit
CkTput_RateBurst(p) ==
    LET lim == st[loc[p].s].WriteThroughput
        ok == LimOk(lim, WriteThroughputLimit, RateBurst, now, loc[p].size)
    IN
    /\ loc[p].pc = "ck_tput"
    /\ st' = [st EXCEPT ![loc[p].s].WriteThroughput =
                 LimTake(lim, WriteThroughputLimit, RateBurst, now, loc[p].size)]
    /\ loc' = [loc EXCEPT ![p] =
                 [@ EXCEPT !.checks = Append(@, "tput"),
                           !.wtAvail = Tokens(lim, WriteThroughputLimit, RateBurst, now),
                           !.ret = IF ok THEN @ ELSE ErrThroughputExceeded,
                           !.pc = IF ok THEN "cs_sz" ELSE "done"]]
    /\ UNCHANGED <<now, enabled, tenantQuota, observed, sizeQ, lastFail, passAt, calls>>

\* CkTput that gives the request token back to a call it refuses
CkTput_Refund(p) ==
    LET lim == st[loc[p].s].WriteThroughput
        ok == LimOk(lim, WriteThroughputLimit, WriteThroughputLimit, now, loc[p].size)
    IN
    /\ loc[p].pc = "ck_tput"
    /\ st' = [st EXCEPT ![loc[p].s].WriteThroughput =
                 LimTake(lim, WriteThroughputLimit, WriteThroughputLimit, now, loc[p].size),
                        ![loc[p].s].Rate.tokens = IF ok THEN @ ELSE @ + 1]
    /\ loc' = [loc EXCEPT ![p] =
                 [@ EXCEPT !.checks = Append(@, "tput"),
                           !.wtAvail = Tokens(lim, WriteThroughputLimit, WriteThroughputLimit, now),
                           !.ret = IF ok THEN @ ELSE ErrThroughputExceeded,
                           !.pc = IF ok THEN "cs_sz" ELSE "done"]]
    /\ UNCHANGED <<now, enabled, tenantQuota, observed, sizeQ, lastFail, passAt, calls>>

\* if !s.WriteThroughput.AllowN(time.Now(), size) { return ErrThroughputExceeded }
CkTput(p) ==
    LET lim == st[loc[p].s].WriteThroughput
        ok == LimOk(lim, WriteThroughputLimit, WriteThroughputLimit, now, loc[p].size)
    IN
    /\ loc[p].pc = "ck_tput"
    /\ st' = [st EXCEPT ![loc[p].s].WriteThroughput =
                 LimTake(lim, WriteThroughputLimit, WriteThroughputLimit, now, loc[p].size)]
    /\ loc' = [loc EXCEPT ![p] =
                 [@ EXCEPT !.checks = Append(@, "tput"),
                           !.wtAvail = Tokens(lim, WriteThroughputLimit, WriteThroughputLimit, now),
                           !.ret = IF ok THEN @ ELSE ErrThroughputExceeded,
                           !.pc = IF ok THEN "cs_sz" ELSE "done"]]
    /\ UNCHANGED <<now, enabled, tenantQuota, observed, sizeQ, lastFail, passAt, calls>>

\* ----------------------------------------------------------- checkStorage

\* StorageVerdict with an inclusive limit: the comparison is > instead of >=
StorageVerdict_Inclusive(sz, size) ==
    IF sz + size > DataSizeLimit THEN ErrStorageSizeExceeded ELSE Nil

\* if sz+int64(size) >= m.cfg.DataSizeLimit { return ErrStorageSizeExceeded }; return nil
StorageVerdict(sz, size) ==
    IF sz + size >= DataSizeLimit THEN ErrStorageSizeExceeded ELSE Nil

\* sz := s.Size.Load()
CsSz(p) ==
    /\ loc[p].pc = "cs_sz"
    /\ loc' = [loc EXCEPT ![p].checks = Append(@, "storage"),
                          ![p].sz = st[loc[p].s].Size, ![p].pc = "cs_test"]
    /\ UNCHANGED <<now, enabled, tenantQuota, st, observed, sizeQ, lastFail, passAt, calls>>

\* currentTimeStamp := time.Now().Unix();
\* if currentTimeStamp < s.SizeUpdateAt.Load()+m.cfg.LimitUpdateInterval: the fast
\* path decides on sz and returns
CsTest(p) ==
    /\ loc[p].pc = "cs_test"
    /\ loc' = [loc EXCEPT ![p] =
                 IF ~Stale(now, st[loc[p].s].SizeUpdateAt, LimitUpdateInterval)
                   THEN [@ EXCEPT !.path = "fast",
                                  !.ret = StorageVerdict(loc[p].sz, loc[p].size),
                                  !.pc = "done"]
                   ELSE [@ EXCEPT !.ts = now, !.sz = 0, !.pc = "cs_lock"]]
    /\ UNCHANGED <<now, enabled, tenantQuota, st, observed, sizeQ, lastFail, passAt, calls>>

\* CsLock without the second test: whoever gets the lock stores its timestamp and
\* refreshes
CsLock_NoRetest(p) ==
    /\ loc[p].pc = "cs_lock"
    /\ st[loc[p].s].SizeLock = NoProc
    /\ st' = [st EXCEPT ![loc[p].s].SizeLock = p,
                        ![loc[p].s].SizeUpdateAt = loc[p].ts]
    /\ loc' = [loc EXCEPT ![p].pc = "cs_refresh"]
    /\ UNCHANGED <<now, enabled, tenantQuota, observed, sizeQ, lastFail, passAt, calls>>

\* s.SizeLock.Lock(); the second test of staleness, under the lock:
\* stale: s.SizeUpdateAt.Store(currentTimeStamp), and the refresh follows;
\* fresh: sz = s.Size.Load(), the verdict on it, the deferred s.SizeLock.Unlock()
CsLock(p) ==
    /\ loc[p].pc = "cs_lock"
    /\ st[loc[p].s].SizeLock = NoProc
    /\ IF Stale(loc[p].ts, st[loc[p].s].SizeUpdateAt, LimitUpdateInterval)
         THEN /\ st' = [st EXCEPT ![loc[p].s].SizeLock = p,
                                  ![loc[p].s].SizeUpdateAt = loc[p].ts]
              /\ loc' = [loc EXCEPT ![p].pc = "cs_refresh"]
         ELSE /\ loc' = [loc EXCEPT ![p] =
                           [@ EXCEPT !.path = "slow",
                                     !.ts = 0,
                                     !.sz = st[loc[p].s].Size,
                                     !.ret = StorageVerdict(st[loc[p].s].Size, loc[p].size),
                                     !.pc = "done"]]
              /\ UNCHANGED st
    /\ UNCHANGED <<now, enabled, tenantQuota, observed, sizeQ, lastFail, passAt, calls>>

\* CsRefresh whose error returns skip the Unlock (no defer): SizeLock stays locked
CsRefresh_LeaksLock(p) ==
    /\ loc[p].pc = "cs_refresh"
    /\ \E failed \in {"GetTenant", "Size", Nil}, dsz \in DiskSizes :
         /\ sizeQ' = [sizeQ EXCEPT ![loc[p].ns] =
                        IF failed = "GetTenant" THEN @ ELSE <<@[2], now>>]
         /\ IF failed # Nil
              THEN /\ UNCHANGED st
                   /\ loc' = [loc EXCEPT ![p].ret = ErrCatalog, ![p].ts = 0, ![p].pc = "done"]
                   /\ lastFail' = [lastFail EXCEPT ![loc[p].ns] =
                                     [ts |-> loc[p].ts, size |-> st[loc[p].s].Size]]
              ELSE /\ st' = [st EXCEPT ![loc[p].s].SizeLock = NoProc,
                                       ![loc[p].s].Size = dsz,
                                       ![loc[p].s].SizeStoredAt = now]
                   /\ loc' = [loc EXCEPT ![p] =
                                [@ EXCEPT !.path = "slow",
                                          !.ts = 0,
                                          !.refreshed = TRUE,
                                          !.sz = dsz,
                                          !.ret = StorageVerdict(dsz, loc[p].size),
                                          !.pc = "done"]]
                   /\ lastFail' = [lastFail EXCEPT ![loc[p].ns] = NoFail]
    /\ UNCHANGED <<now, enabled, tenantQuota, observed, passAt, calls>>

\* t, err := m.tenantMgr.GetTenant(ctx, namespace, m.txMgr); if err != nil { return err }
\* dsz, err := t.Size(ctx); if err != nil { return err }
\* s.Size.Store(dsz); sz = s.Size.Load(); the verdict on it;
\* on every way out the deferred s.SizeLock.Unlock()
CsRefresh(p) ==
    /\ loc[p].pc = "cs_refresh"
    /\ \E failed \in {"GetTenant", "Size", Nil}, dsz \in DiskSizes :
         /\ sizeQ' = [sizeQ EXCEPT ![loc[p].ns] =
                        IF failed = "GetTenant" THEN @ ELSE <<@[2], now>>]
         /\ IF failed # Nil
              THEN /\ st' = [st EXCEPT ![loc[p].s].SizeLock = NoProc]
                   /\ loc' = [loc EXCEPT ![p].ret = ErrCatalog, ![p].ts = 0, ![p].pc = "done"]
                   /\ lastFail' = [lastFail EXCEPT ![loc[p].ns] =
                                     [ts |-> loc[p].ts, size |-> st[loc[p].s].Size]]
              ELSE /\ st' = [st EXCEPT ![loc[p].s].SizeLock = NoProc,
                                       ![loc[p].s].Size = dsz,
                                       ![loc[p].s].SizeStoredAt = now]
                   /\ loc' = [loc EXCEPT ![p] =
                                [@ EXCEPT !.path = "slow",
                                          !.ts = 0,
                                          !.refreshed = TRUE,
                                          !.sz = dsz,
                                          !.ret = StorageVerdict(dsz, loc[p].size),
                                          !.pc = "done"]]
                   /\ lastFail' = [lastFail EXCEPT ![loc[p].ns] = NoFail]
    /\ UNCHANGED <<now, enabled, tenantQuota, observed, passAt, calls>>

\* ------------------------------------------------------ the specification

\* the steps inside a call that every request can take
Steps(p) ==
    \/ GsLoad(p) \/ GsStore(p) \/ Return(p)
    \/ UmLoad(p) \/ UmStore(p) \/ UmTest(p) \/ UmLock(p) \/ UmWalk(p)
    \/ AlEnabled(p)
    \/ CkLoad(p) \/ CkRate(p) \/ CkTput(p)

\* the steps of checkStorage
StorageSteps(p) == CsSz(p) \/ CsTest(p) \/ CsLock(p) \/ CsRefresh(p)

\* handlers serving any tenant and any request size
Next ==
    \/ Tick
    \/ \E p \in Procs :
         \/ CallAllow(p, Tenants, ReqSizes, MaxCalls)
         \/ CallGetState(p, Tenants, MaxCalls)
         \/ Steps(p)
         \/ StorageSteps(p)

Spec == Init /\ [][Next]_vars

\* handlers that send one tenant oversized requests only, all within one second:
\* every call that passes the rate check ends at the throughput check
NextRate ==
    \E p \in Procs :
      \/ CallAllow(p, {DrainedTenant}, Oversized, MaxRateCalls)
      \/ CallGetState(p, {DrainedTenant}, MaxRateCalls)
      \/ Steps(p)

InitRate == InitCold /\ enabled = TRUE

SpecRate == InitRate /\ [][NextRate]_vars

\* handlers that send one tenant requests of one byte or read its State, all within
\* one second, each handler up to MaxRetryCalls calls
NextRetry ==
    \E p \in Procs :
      \/ CallAllow(p, {DrainedTenant}, {1}, MaxRetryCalls)
      \/ CallGetState(p, {DrainedTenant}, MaxRetryCalls)
      \/ Steps(p)
      \/ StorageSteps(p)

SpecRetry == InitRate /\ [][NextRetry]_vars

\* handlers that send one tenant requests of one byte or read its State while the
\* clock advances, quotas enabled or disabled; every handler inside a call keeps
\* being scheduled (a goroutine that can run does run; a blocked Lock is not a step)
NextLive ==
    \/ Tick
    \/ \E p \in Procs :
         \/ CallAllow(p, {DrainedTenant}, {1}, MaxCalls)
         \/ CallGetState(p, {DrainedTenant}, MaxCalls)
         \/ Steps(p)
         \/ StorageSteps(p)

SpecLive ==
    /\ InitCold
    /\ [][NextLive]_vars
    /\ \A p \in Procs : WF_vars(Steps(p) \/ StorageSteps(p))

\* ----------------------------------------------------------------- claims

\* a call of Allow that has returned
Returned(p) == loc[p].pc = "done"

\* C1: with quotas enabled a returned Allow call has consulted rate, then write
\* throughput, then storage, and stopped at the first check that refused: with no
\* request token it returned RateExceeded and consulted nothing else; otherwise with
\* fewer than reqSize byte tokens it returned ThroughputExceeded and did not run the
\* storage check; otherwise it returned what the storage check returned.
C1_CheckOrder ==
    \A p \in Procs :
      (Returned(p) /\ enabled) =>
        LET h == loc[p] IN
        IF h.checks = <<>> \/ h.rateAvail < 1
          THEN h.ret = ErrRateExceeded /\ h.checks = <<"rate">>
          ELSE IF Len(h.checks) < 2 \/ h.wtAvail < h.size
            THEN h.ret = ErrThroughputExceeded /\ h.checks = <<"rate", "tput">>
            ELSE /\ h.checks = <<"rate", "tput", "storage">>
                 /\ IF h.path = None
                      THEN h.ret = ErrCatalog
                      ELSE h.ret = StorageVerdict(h.sz, h.size)

\* C1 witness: one call refused by the rate check and one refused by the throughput
\* check have returned
C1_Witness ==
    \E p, q \in Procs :
      /\ Returned(p) /\ loc[p].ret = ErrRateExceeded /\ loc[p].rateAvail = 0
      /\ Returned(q) /\ loc[q].ret = ErrThroughputExceeded /\ loc[q].rateAvail >= 1

\* C2: with quotas disabled every returned Allow call returned success.
C2_DisabledBypass ==
    \A p \in Procs : (Returned(p) /\ ~enabled) => loc[p].ret = Nil

\* C2 witness: with quotas disabled a call has returned whose request is larger than
\* the throughput burst and as large as the data size limit
C2_Witness ==
    \E p \in Procs :
      /\ Returned(p) /\ ~enabled
      /\ loc[p].size > WriteThroughputLimit /\ loc[p].size >= DataSizeLimit

\* C3: for every tenant, two successive Tenant.Size queries of the enforcement
\* refresh are at least LimitUpdateInterval seconds apart (at most one query in any
\* shorter window; concurrent calls on a cold State query once).
C3_Debounce ==
    \A t \in Tenants :
      sizeQ[t][1] # Never => sizeQ[t][2] - sizeQ[t][1] >= LimitUpdateInterval

\* the step in which handler p's storage check reaches its verdict
Decision(p) ==
    /\ loc[p].pc \in {"cs_test", "cs_lock", "cs_refresh"}
    /\ loc'[p].pc = "done"
    /\ loc'[p].path # None

\* C4: every verdict of the storage check is on a value of Size that this call's
\* own refresh stored, or that is the State's Size as a successful refresh stored it
\* less than LimitUpdateInterval seconds before the verdict (never the Size = 0 a
\* new State starts with).
C4_FreshDecision ==
    [][\A p \in Procs :
         Decision(p) =>
           \/ loc'[p].refreshed
           \/ /\ st[loc[p].s].SizeStoredAt # Never
              /\ now - st[loc[p].s].SizeStoredAt < LimitUpdateInterval
              /\ loc'[p].sz = st[loc[p].s].Size]_vars

\* C5: an enforcement refresh that fails returns the collaborator's error, leaves
\* Size as it was, leaves SizeUpdateAt at the caller's timestamp and SizeLock free;
\* and a call of Allow for that tenant that starts after the failure and tests
\* staleness within LimitUpdateInterval of that timestamp takes the fast path on the
\* Size the failed refresh left, with no catalog query.
C5_FailedRefresh ==
    [][\A p \in Procs :
         /\ (loc[p].pc = "cs_refresh" /\ loc'[p].pc = "done" /\ loc'[p].path = None) =>
              /\ loc'[p].ret = ErrCatalog
              /\ st'[loc[p].s].Size = st[loc[p].s].Size
              /\ st'[loc[p].s].SizeUpdateAt = loc[p].ts
              /\ st'[loc[p].s].SizeLock = NoProc
         /\ ( /\ loc[p].pc = "cs_test" /\ loc'[p].pc # "cs_test"
              /\ loc[p].sawFail # NoFail
              /\ now < loc[p].sawFail.ts + LimitUpdateInterval ) =>
              /\ loc'[p].pc = "done" /\ loc'[p].path = "fast"
              /\ loc'[p].sz = loc[p].sawFail.size
              /\ sizeQ' = sizeQ]_vars

\* C6: for every tenant, all calls of getState have returned the same State object.
C6_UniqueState ==
    \A t \in Tenants : Cardinality(observed[t]) <= 1

\* the calls of tenant t that passed the rate check in the seconds x .. y
RECURSIVE SumPass(_, _, _)
SumPass(t, x, y) == IF x > y THEN 0 ELSE passAt[t][x] + SumPass(t, x + 1, y)

\* C7: for every tenant and every window of seconds x .. y, at most
\* RateLimit * (y - x) + RateBurst calls have passed the rate check (within one
\* reading of the clock: at most RateBurst, the 11th call is refused).
C7_LinearRate ==
    \A t \in Tenants : \A x, y \in Times :
      x <= y => SumPass(t, x, y) <= RateLimit * (y - x) + RateBurst

\* all that the manager holds for tenant t: its map entry and its State objects
TenantView(t) == <<tenantQuota[t], [i \in {j \in StateIds : j[1] = t} |-> st[i]]>>

\* C8: a handler only ever holds a State of the tenant it was called for, and a
\* step in which only handlers called for other tenants move leaves tenant t's map
\* entry and State objects (limiter tokens, Size, both timestamps, both locks) as
\* they were.
C8_Isolation ==
    /\ [](\A p \in Procs : loc[p].s # NoState => loc[p].s[1] = loc[p].ns)
    /\ [][\A t \in Tenants :
            (\A p \in Procs : loc'[p] # loc[p] => (loc[p].ns # t /\ loc'[p].ns # t))
              => TenantView(t)' = TenantView(t)]_vars

\* C8 witness: calls for two different tenants have both returned with a verdict of
\* the storage check, each on its own tenant's State
C8_Witness ==
    \E p, q \in Procs :
      /\ Returned(p) /\ Returned(q)
      /\ loc[p].ns # loc[q].ns
      /\ loc[p].path # None /\ loc[q].path # None
      /\ loc[p].s # loc[q].s

\* C9: a verdict of the storage check on the value sz is StorageSizeExceeded exactly
\* when sz + reqSize >= DataSizeLimit and success otherwise, on the fast and on the
\* slow path; and the verdict leaves Size alone: Size changes only in a refresh, to
\* the very value the verdict is on.
C9_Threshold ==
    [][\A p \in Procs :
         Decision(p) =>
           /\ loc'[p].ret = IF loc'[p].sz + loc[p].size >= DataSizeLimit
                              THEN ErrStorageSizeExceeded ELSE Nil
           /\ IF loc[p].pc = "cs_refresh"
                THEN st'[loc[p].s].Size = loc'[p].sz
                ELSE st'[loc[p].s].Size = st[loc[p].s].Size]_vars

\* C9 witness: a call on the fast path and a call on the slow path have both been
\* refused with sz + reqSize exactly DataSizeLimit
C9_Witness ==
    \E p, q \in Procs :
      /\ Returned(p) /\ loc[p].path = "fast"
      /\ Returned(q) /\ loc[q].path = "slow"
      /\ loc[p].sz + loc[p].size = DataSizeLimit /\ loc[p].ret = ErrStorageSizeExceeded
      /\ loc[q].sz + loc[q].size = DataSizeLimit /\ loc[q].ret = ErrStorageSizeExceeded

\* the values Allow returns: nil, a quota error, or the error of a collaborator of
\* the enforcement refresh, and that one only out of this call's own refresh
RetAllowed(h) ==
    /\ h.ret \in {None, Nil, ErrRateExceeded, ErrThroughputExceeded,
                  ErrStorageSizeExceeded, ErrCatalog}
    /\ h.ret = ErrCatalog =>
         (h.pc = "done" /\ h.checks = <<"rate", "tput", "storage">> /\ h.path = None)

\* C10: Allow returns nil, RateExceeded, ThroughputExceeded, StorageSizeExceeded or
\* the error of its own enforcement refresh; and the metrics walk leaves the same
\* state behind however it ends (only the record of how it ended differs), so that
\* the way on from it, which reads no such record, returns the same value.
C10_MetricsSwallowed ==
    /\ [](\A p \in Procs : RetAllowed(loc[p]))
    /\ [][\A p \in Procs :
            /\ loc[p].pc = "um_walk" /\ loc'[p] # loc[p] =>
                 /\ loc' = [loc EXCEPT ![p].ts = 0, ![p].walk = loc'[p].walk,
                                       ![p].pc = "al_enabled"]
                 /\ st' = [st EXCEPT ![loc[p].s].TenantSizeLock = NoProc]
                 /\ UNCHANGED <<now, enabled, tenantQuota, observed, sizeQ, lastFail,
                              passAt, calls>>
            /\ loc[p].pc = "al_enabled" /\ loc'[p] # loc[p] =>
                 /\ loc'[p].pc = IF enabled THEN "ck_load" ELSE "done"
                 /\ loc'[p].ret = IF enabled THEN None ELSE Nil
                 /\ UNCHANGED <<now, enabled, tenantQuota, st, observed, sizeQ, lastFail,
                              passAt, calls>>]_vars

\* C10 witness: a call whose metrics walk failed has returned nil
C10_Witness ==
    \E p \in Procs :
      /\ Returned(p) /\ loc[p].ret = Nil
      /\ loc[p].walk \in WalkOutcomes \ {Nil}

\* handler p is inside updateTenantMetrics
InMetrics(p) == loc[p].pc \in {"um_load", "um_store", "um_test", "um_lock", "um_walk"}

\* C11: the metrics debounce runs before Enabled is tested and before a limiter is
\* consulted; a call of Allow that finds now >= TenantSizeUpdateAt +
\* TenantSizeRefreshInterval goes for TenantSizeLock whatever Enabled is, the step
\* it takes from there is the one that emits the namespace size, and it takes it.
C11_MetricsAlwaysOn ==
    /\ [](\A p \in Procs : InMetrics(p) => (loc[p].checks = <<>> /\ loc[p].ret = None))
    /\ [][\A p \in Procs :
            /\ ( /\ loc[p].pc = "um_test" /\ loc'[p] # loc[p]
                 /\ now >= st[loc[p].s].TenantSizeUpdateAt + TenantSizeRefreshInterval )
                 => loc'[p].pc = "um_lock"
            /\ (loc[p].pc = "um_lock" /\ loc'[p] # loc[p]) => loc'[p].pc = "um_walk"]_vars
    /\ \A p \in Procs : (loc[p].pc = "um_lock") ~> (loc[p].pc = "um_walk")

\* C11 witness: with quotas disabled a call that ran the metrics path has returned
C11_Witness ==
    \E p \in Procs : Returned(p) /\ ~enabled /\ loc[p].walk # None

\* C12: no step lowers the SizeUpdateAt of a State: every write stores a value
\* greater than or equal to the one it replaces.
C12_SizeUpdateAtMonotone ==
    [][\A i \in StateIds : st'[i].SizeUpdateAt >= st[i].SizeUpdateAt]_vars

\* C12 witness: a handler that read its timestamp before waiting for SizeLock is
\* about to take the lock, and SizeUpdateAt has meanwhile been stored with a later
\* timestamp by a call that has returned
C12_Witness ==
    \E p, q \in Procs :
      /\ loc[p].pc = "cs_lock"
      /\ loc[p].ts < st[loc[p].s].SizeUpdateAt
      /\ Returned(q) /\ loc[q].s = loc[p].s /\ loc[q].checks = <<"rate", "tput", "storage">>
      /\ st[loc[p].s].SizeLock = NoProc

\* C13: no step lowers the TenantSizeUpdateAt of a State: every write stores a
\* value greater than or equal to the one it replaces.
C13_TenantSizeUpdateAtMonotone ==
    [][\A i \in StateIds : st'[i].TenantSizeUpdateAt >= st[i].TenantSizeUpdateAt]_vars

\* handler p takes a step
Moves(p) == loc'[p] # loc[p]

\* C14: a call that passes the rate check takes exactly one request token there; the
\* throughput check takes reqSize byte tokens from a call it passes and leaves the
\* bucket as it was for a call it refuses with ThroughputExceeded; a call that ends
\* with ThroughputExceeded, StorageSizeExceeded or a collaborator error has been
\* through these checks; and nothing is given back: the request limiter changes in
\* no other step than a rate check, the byte limiter in no other step than a
\* throughput check.
C14_TokenAccounting ==
    /\ [](\A p \in Procs : Returned(p) =>
            /\ loc[p].ret = ErrThroughputExceeded => loc[p].checks = <<"rate", "tput">>
            /\ loc[p].ret \in {ErrStorageSizeExceeded, ErrCatalog}
                 => loc[p].checks = <<"rate", "tput", "storage">>)
    /\ [][/\ \A p \in Procs :
               /\ (loc[p].pc = "ck_rate" /\ loc'[p].pc = "ck_tput") =>
                    /\ st'[loc[p].s].Rate.tokens
                         = Tokens(st[loc[p].s].Rate, RateLimit, RateBurst, now) - 1
                    /\ st'[loc[p].s].WriteThroughput = st[loc[p].s].WriteThroughput
               /\ (loc[p].pc = "ck_tput" /\ Moves(p)) =>
                    /\ st'[loc[p].s].Rate = st[loc[p].s].Rate
                    /\ IF loc'[p].ret = ErrThroughputExceeded
                         THEN st'[loc[p].s].WriteThroughput = st[loc[p].s].WriteThroughput
                         ELSE st'[loc[p].s].WriteThroughput.tokens
                                = Tokens(st[loc[p].s].WriteThroughput, WriteThroughputLimit,
                                         WriteThroughputLimit, now) - loc[p].size
          /\ \A i \in StateIds :
               /\ st'[i].Rate # st[i].Rate =>
                    \E p \in Procs : loc[p].pc = "ck_rate" /\ loc[p].s = i /\ Moves(p)
               /\ st'[i].WriteThroughput # st[i].WriteThroughput =>
                    \E p \in Procs : loc[p].pc = "ck_tput" /\ loc[p].s = i /\ Moves(p)]_vars

\* C14 witness: a call refused with ThroughputExceeded and a call refused with
\* StorageSizeExceeded have returned
C14_Witness ==
    \E p, q \in Procs :
      /\ Returned(p) /\ loc[p].ret = ErrThroughputExceeded
      /\ Returned(q) /\ loc[q].ret = ErrStorageSizeExceeded

\* C15: the byte bucket of every State holds between 0 and WriteThroughputLimit
\* tokens, as stored and as topped up to the present; a call with quotas enabled
\* that got to the throughput check with reqSize > WriteThroughputLimit ended with
\* ThroughputExceeded; and a call with reqSize <= WriteThroughputLimit that found
\* the bucket full passed the throughput check.
C15_ThroughputBucket ==
    /\ \A i \in StateIds :
         LET lim == st[i].WriteThroughput IN
         /\ 0 <= lim.tokens /\ lim.tokens <= WriteThroughputLimit
         /\ 0 <= Tokens(lim, WriteThroughputLimit, WriteThroughputLimit, now)
         /\ Tokens(lim, WriteThroughputLimit, WriteThroughputLimit, now) <= WriteThroughputLimit
    /\ \A p \in Procs :
         (Len(loc[p].checks) >= 2) =>
           /\ loc[p].wtAvail <= WriteThroughputLimit
           /\ loc[p].size > WriteThroughputLimit => loc[p].ret = ErrThroughputExceeded
           /\ (loc[p].size <= WriteThroughputLimit /\ loc[p].wtAvail = WriteThroughputLimit)
                => loc[p].ret # ErrThroughputExceeded

\* C15 witness: a call with reqSize > WriteThroughputLimit has been refused on a
\* bucket that had been idle long enough to overflow were it not capped, and a call
\* with reqSize <= WriteThroughputLimit has passed the throughput check
C15_Witness ==
    \E p, q \in Procs :
      /\ Returned(p) /\ loc[p].ret = ErrThroughputExceeded
      /\ loc[p].size > WriteThroughputLimit
      /\ LET lim == st[loc[p].s].WriteThroughput IN
           lim.tokens + (now - lim.last) * WriteThroughputLimit > WriteThroughputLimit
      /\ Returned(q) /\ loc[q].size <= WriteThroughputLimit
      /\ loc[q].checks = <<"rate", "tput", "storage">>

\* handler q has begun a refresh of State i and has not yet stored the new Size
Refreshing(q, i) == loc[q].pc = "cs_refresh" /\ loc[q].s = i

\* C16: while a handler is refreshing the Size of a State, no other handler's storage
\* check reaches a verdict on that State: the others wait on SizeLock until the new
\* Size is stored, so none decides on the Size from before the refresh.
C16_BurstWaits ==
    [][\A p \in Procs :
         Decision(p) => \A q \in Procs \ {p} : ~Refreshing(q, loc[p].s)]_vars

\* C17: the metrics path of a State (store TenantSizeUpdateAt, emit, walk) is run at
\* most once per TenantSizeRefreshInterval: whenever a handler runs it, the timestamp
\* the previous run stored on that State (0 if there was none) is at least
\* TenantSizeRefreshInterval in the past.
C17_MetricsDebounce ==
    [][\A p \in Procs :
         (loc[p].pc = "um_lock" /\ loc'[p].pc = "um_walk") =>
           now >= st[loc[p].s].TenantSizeUpdateAt + TenantSizeRefreshInterval]_vars

\* the enforcement side of a State: the cache, its timestamp and lock, the limiters
Enforcement(i) ==
    <<st[i].Size, st[i].SizeUpdateAt, st[i].SizeLock, st[i].Rate, st[i].WriteThroughput>>

\* C18: a step of updateTenantMetrics (catalog walk and its own Tenant.Size read
\* included) leaves Size, SizeUpdateAt, SizeLock and the limiters of every State as
\* they were; and Size changes only in a step of the handler that holds SizeLock in
\* the enforcement slow path.
C18_MetricsFrame ==
    [][/\ \A p \in Procs :
            (InMetrics(p) /\ Moves(p)) =>
              \A i \in StateIds : Enforcement(i)' = Enforcement(i)
       /\ \A i \in StateIds :
            st'[i].Size # st[i].Size =>
              \E p \in Procs : st[i].SizeLock = p /\ Refreshing(p, i) /\ Moves(p)]_vars

\* C18 witness: a metrics walk that read the tenant size has ended on a State whose
\* Size holds a value an enforcement refresh stored
C18_Witness ==
    \E p \in Procs :
      /\ loc[p].pc = "al_enabled" /\ loc[p].walk = Nil
      /\ st[loc[p].s].SizeStoredAt # Never /\ st[loc[p].s].Size > 0

\* handler p holds no mutex of any State
HoldsNone(p) ==
    \A i \in StateIds : st[i].SizeLock # p /\ st[i].TenantSizeLock # p

\* C19: no handler holds a TenantSizeLock and a SizeLock at the same time; a handler
\* waiting for either mutex holds none; and whenever a call is in progress some
\* handler inside a call can take a step (no deadlock).
C19_NoNesting ==
    /\ \A p \in Procs : \A i, j \in StateIds :
         ~(st[i].TenantSizeLock = p /\ st[j].SizeLock = p)
    /\ \A p \in Procs : loc[p].pc \in {"um_lock", "cs_lock"} => HoldsNone(p)
    /\ (\E p \in Procs : loc[p].pc # "idle") =>
         \E p \in Procs : ENABLED (Steps(p) \/ StorageSteps(p))

\* C19 witness: both mutexes of one State are held, by two handlers, while the
\* one in the metrics walk has the storage check still before it
C19_Witness ==
    \E p, q \in Procs : \E i \in StateIds :
      /\ st[i].TenantSizeLock = p /\ loc[p].pc = "um_walk"
      /\ st[i].SizeLock = q /\ loc[q].pc = "cs_refresh"
      /\ enabled

\* every mutex of every State is unlocked
AllFree ==
    \A i \in StateIds : st[i].SizeLock = NoProc /\ st[i].TenantSizeLock = NoProc

\* C20: a mutex is held only by a handler inside the critical section it guards, so
\* a handler that has left its call, by whatever way out, holds none, and with no
\* call in progress every mutex is free; and with handlers scheduled fairly and
\* collaborator calls that return, every call that has begun returns.
C20_Termination ==
    /\ [](\A i \in StateIds :
            /\ st[i].SizeLock # NoProc => Refreshing(st[i].SizeLock, i)
            /\ st[i].TenantSizeLock # NoProc =>
                 (loc[st[i].TenantSizeLock].pc = "um_walk" /\ loc[st[i].TenantSizeLock].s = i))
    /\ []((\A p \in Procs : loc[p].pc \in {"idle", "done", "gs_done"}) => AllFree)
    /\ \A p \in Procs : (loc[p].pc # "idle") ~> (loc[p].pc \in {"done", "gs_done"})

\* C20 witness: a call whose enforcement refresh failed and a call refused with
\* StorageSizeExceeded have both returned, and every mutex is free
C20_Witness ==
    \E p, q \in Procs :
      /\ Returned(p) /\ loc[p].ret = ErrCatalog
      /\ Returned(q) /\ loc[q].ret = ErrStorageSizeExceeded
      /\ AllFree

====
